---------------------------- MODULE Spec2Model ----------------------------
(***************************************************************************)
(* A model of yotta's Pack (src/yotta/lib/pack.py): the package entity     *)
(* (manifest, version, load error, candidate version), its ignore rules,   *)
(* the tarball builder, the readme locator and the publish pipeline.       *)
(*                                                                         *)
(* Strings are sequences of one-character strings, so that prefix tests,   *)
(* case folding, suffix tests and glob matching are computed, not assumed. *)
(* Python's None is the empty sequence None wherever the other values of   *)
(* the field are sequences (a version, a name, a file name).               *)
(***************************************************************************)
EXTENDS Integers, Sequences, FiniteSets, TLC

VARIABLES
    description,              \* self.description: the manifest, key -> string
    version,                  \* self.version: <<major, minor, patch>> or None
    error,                    \* self.error: "None" or the load exception
    latest_suitable_version,  \* self.latest_suitable_version: version or None
    ignore_patterns,          \* self.ignore_patterns: the list of patterns
    namespace,                \* what the object's class gives as registry
                              \* namespace; None when it has no such method
    tree,                     \* the package directory: its entries, in listing order
    manifest,                 \* the file at <path>/<description_filename>
    lastCall,                 \* the last method called on the Pack and what it gave
    pc,                       \* per publish() invocation: where it is
    fd,                       \* per invocation: the inode its descriptor refers to (0: none)
    staging,                  \* the inode bound to <path>/upload.tar.gz (0: no such file)
    inodes,                   \* number of inodes created so far at that name
    pub                       \* per invocation: handles, flags and outcome of publish()

vars == <<description, version, error, latest_suitable_version, ignore_patterns,
          namespace, tree, manifest, lastCall, pc, fd, staging, inodes, pub>>

packVars == <<description, version, error, latest_suitable_version, ignore_patterns,
              namespace>>
publishVars == <<pc, fd, staging, inodes, pub>>

\* ------------------------------------------------------------------ bounds

\* minor and patch numbers of the versions add up to at most MaxVer
MaxVer == 1
\* number of concurrent publish() invocations on the same package directory
NumProcs == 2
\* longest directory listing handed to findAndOpenReadme
MaxList == 3

None == <<>>

\* ------------------------------------------------------------ characters

Uppers == <<"A","B","C","D","E","F","G","H","I","J","K","L","M",
            "N","O","P","Q","R","S","T","U","V","W","X","Y","Z">>
Lowers == <<"a","b","c","d","e","f","g","h","i","j","k","l","m",
            "n","o","p","q","r","s","t","u","v","w","x","y","z">>
Digits == <<"0","1","2","3","4","5","6","7","8","9">>

\* c.lower() for one character
LowerChar(c) ==
    IF \E i \in 1..26 : Uppers[i] = c
    THEN Lowers[CHOOSE i \in 1..26 : Uppers[i] = c]
    ELSE c

\* s.lower()
StrLower(s) == [i \in 1..Len(s) |-> LowerChar(s[i])]

\* s.startswith(p)
StartsWith(s, p) == Len(p) <= Len(s) /\ SubSeq(s, 1, Len(p)) = p

\* s.endswith(p)
EndsWith(s, p) == Len(p) <= Len(s) /\ SubSeq(s, Len(s) - Len(p) + 1, Len(s)) = p

\* s[n:]
StrFrom(s, n) == SubSeq(s, n + 1, Len(s))

\* -------------------------------------------------------------- versions
\* version.Version is a collaborator outside pack.py: a semantic version
\* parsed from a string, ordered, printed back in canonical form.

IsDigit(c) == \E i \in 1..10 : Digits[i] = c
DigitVal(c) == (CHOOSE i \in 1..10 : Digits[i] = c) - 1

\* the text of a version string once a leading "v" or "=" is dropped
VersionBody(s) ==
    IF Len(s) > 0 /\ s[1] \in {"v", "="} THEN Tail(s) ELSE s

\* whether version.Version(s) parses: MAJOR.MINOR.PATCH, one digit each here
VersionParses(s) ==
    LET b == VersionBody(s) IN
    /\ Len(b) = 5
    /\ IsDigit(b[1]) /\ b[2] = "." /\ IsDigit(b[3]) /\ b[4] = "." /\ IsDigit(b[5])

\* version.Version(s) for a string that parses
Version(s) ==
    LET b == VersionBody(s) IN <<DigitVal(b[1]), DigitVal(b[3]), DigitVal(b[5])>>

\* str(v): the canonical string of a version
VersionStr(v) == <<Digits[v[1] + 1], ".", Digits[v[2] + 1], ".", Digits[v[3] + 1]>>

\* a > b on versions
VersionGT(a, b) ==
    \/ a[1] > b[1]
    \/ a[1] = b[1] /\ a[2] > b[2]
    \/ a[1] = b[1] /\ a[2] = b[2] /\ a[3] > b[3]

\* bool(v) for a version object: an object with no __nonzero__ is true
VersionTruthy(v) == v # None

\* the versions the callers pass in
Versions == {v \in {<<0, m, p>> : m \in 0..MaxVer, p \in 0..MaxVer} : v[2] + v[3] <= MaxVer}

\* ------------------------------------------------------------- constants

\* Default_Publish_Ignore, pack.py lines 32-46
Default_Publish_Ignore == <<
    <<"u","p","l","o","a","d",".","t","a","r",".","[","g","b","]","z">>,
    <<".","g","i","t">>,
    <<".","h","g">>,
    <<".","s","v","n">>,
    <<"y","o","t","t","a","_","m","o","d","u","l","e","s">>,
    <<"y","o","t","t","a","_","t","a","r","g","e","t","s">>,
    <<"b","u","i","l","d">>,
    <<".","D","S","_","S","t","o","r","e">>,
    <<".","s","w","[","p","o","n","m","l","]">>,
    <<".","_",".","*">>,
    <<"~">>,
    <<".","D","S","_","S","t","o","r","e">>,
    <<".","_",".","*">>
>>

\* the pattern text of Readme_Regex: ^readme(?:\.md), compiled with re.IGNORECASE
Readme_Regex == <<"r","e","a","d","m","e",".","m","d">>

\* 'upload.tar.gz', the staging file's name
UploadArchive == <<"u","p","l","o","a","d",".","t","a","r",".","g","z">>

\* Ignore_List_Fname, line 50
Ignore_List_Fname == <<".","y","o","t","t","a","_","i","g","n","o","r","e">>

\* str(None)
NoneStr == <<"N","o","n","e">>

\* ------------------------------------------------------------ the manifest

\* an OrderedDict with no keys
EmptyDict == [k \in {} |-> None]

\* bool(d) for a dictionary
DictTruthy(d) == DOMAIN d # {}

\* d[k] = v
DictSet(d, k, v) == [x \in (DOMAIN d) \cup {k} |-> IF x = k THEN v ELSE d[x]]

\* package names found in manifests and passed to setName
Names == {<<"p","k","g">>, <<"l","i","b">>}

\* version strings found in manifests: canonical, one with npm's leading
\* "v", and one that is no version
ManifestVersionStrings ==
    {VersionStr(v) : v \in Versions}
        \cup {<<"v">> \o VersionStr(<<0, 1, 0>>)}
        \cup {<<"t","i","p">>}

\* the JSON objects a manifest file may hold
ManifestObjects ==
    {EmptyDict}
        \cup {[k \in {"name"} |-> n] : n \in Names}
        \cup {[k \in {"version"} |-> s] : s \in ManifestVersionStrings}
        \cup {[k \in {"name", "version"} |-> IF k = "name" THEN n ELSE s] :
                n \in Names, s \in ManifestVersionStrings}

\* what is found at <path>/<description_filename>
ManifestFiles ==
    {[kind |-> "missing", obj |-> EmptyDict], [kind |-> "malformed", obj |-> EmptyDict]}
        \cup {[kind |-> "json", obj |-> d] : d \in ManifestObjects}

\* the try block of __init__ (lines 96-101): the manifest is loaded and its
\* version parsed; any exception empties the description and is kept as error
LoadDescription(file) ==
    IF file.kind = "missing"
    THEN [description |-> EmptyDict, version |-> None, error |-> "IOError"]
    ELSE IF file.kind = "malformed"
    THEN [description |-> EmptyDict, version |-> None, error |-> "ValueError"]
    ELSE IF "version" \notin DOMAIN file.obj
    THEN [description |-> EmptyDict, version |-> None, error |-> "KeyError"]
    ELSE IF ~VersionParses(file.obj["version"])
    THEN [description |-> EmptyDict, version |-> None, error |-> "ValueError"]
    ELSE [description |-> file.obj, version |-> Version(file.obj["version"]),
          error |-> "None"]

\* __nonzero__: bool(self.description)
Truthy == DictTruthy(description)

\* getError()
GetError == error

\* getVersion()
GetVersion == version

\* a returned value, or the exception raised instead of one
Ret(v) == [exc |-> "none", val |-> v]
Raise(e) == [exc |-> e, val |-> None]

\* getName(): None for an empty description, else description['name']
\* the namespace a subclass of Pack publishes to
SubclassNamespace == <<"m","o","d","u","l","e","s">>

\* self.getRegistryNamespace(), line 256: Pack does not define the method,
\* so on a Pack that is no subclass the attribute lookup raises
GetRegistryNamespace ==
    IF namespace = None THEN Raise("AttributeError") ELSE Ret(namespace)

GetName ==
    IF DictTruthy(description)
    THEN IF "name" \in DOMAIN description
         THEN Ret(description["name"])
         ELSE Raise("KeyError")
    ELSE Ret(None)

\* ------------------------------------------------------------ ignore rules

RECURSIVE JoinWith(_, _)
\* sep.join(strs)
JoinWith(strs, sep) ==
    IF strs = <<>> THEN <<>>
    ELSE IF Len(strs) = 1 THEN strs[1]
    ELSE strs[1] \o sep \o JoinWith(Tail(strs), sep)

RECURSIVE RStripNewlines(_)
\* l.rstrip('\n\r')
RStripNewlines(l) ==
    IF l # <<>> /\ l[Len(l)] \in {"\n", "\r"}
    THEN RStripNewlines(SubSeq(l, 1, Len(l) - 1))
    ELSE l

\* the lines kept by _parseIgnoreFile: those that do not start with '#'
KeepLine(l) == ~StartsWith(l, <<"#">>)

\* _parseIgnoreFile(f), lines 172-178
ParseIgnoreFile(f) ==
    SelectSeq([i \in 1..Len(f) |-> RStripNewlines(f[i])], KeepLine)

\* what is found at <path>/.yotta_ignore: nothing (ENOENT), or lines of text
IgnoreFiles ==
    { [exists |-> FALSE, lines |-> <<>>],
      [exists |-> TRUE,
       lines |-> << <<"*",".","s","e","c","r","e","t","\n">> >>],
      [exists |-> TRUE,
       lines |-> << <<"#"," ","n","o","t","e","s","\n">>,
                    <<"d","o","c","s","\r","\n">>,
                    <<"\n">>,
                    <<"*",".","s","e","c","r","e","t">> >>] }

\* self.ignore_patterns after __init__ (lines 95, 102-107): the compiled
\* alternation of the defaults, then the override lines as plain strings
InitIgnorePatterns(file) ==
    LET lines == IF file.exists THEN ParseIgnoreFile(file.lines) ELSE <<>> IN
    << [kind |-> "regex", text |-> JoinWith(Default_Publish_Ignore, <<"|">>)] >>
        \o [i \in 1..Len(lines) |-> [kind |-> "str", text |-> lines[i]]]

RECURSIVE SplitOn(_, _, _, _)
\* s.split(sep), scanning from position i with cur the piece being read
SplitOn(s, sep, i, cur) ==
    IF i > Len(s) THEN <<cur>>
    ELSE IF s[i] = sep THEN <<cur>> \o SplitOn(s, sep, i + 1, <<>>)
    ELSE SplitOn(s, sep, i + 1, Append(cur, s[i]))

\* the parts of a relative PurePath: its components without '' and '.'
NonEmptyPart(p) == p # <<>> /\ p # <<".">>
PathParts(s) == SelectSeq(SplitOn(s, "/", 1, <<>>), NonEmptyPart)

RECURSIVE ClassScan(_, _)
\* fnmatch: the index of the ']' that closes a class, searched from j; 0 if none
ClassScan(pat, j) ==
    IF j > Len(pat) THEN 0
    ELSE IF pat[j] = "]" THEN j
    ELSE ClassScan(pat, j + 1)

\* fnmatch: for a pattern starting with '[', where its class ends (0: no class)
ClassEnd(pat) ==
    LET j1 == IF Len(pat) >= 2 /\ pat[2] = "!" THEN 3 ELSE 2
        j2 == IF Len(pat) >= j1 /\ pat[j1] = "]" THEN j1 + 1 ELSE j1
    IN ClassScan(pat, j2)

\* fnmatch: whether character c is in the class pat[1..e] (no ranges occur here)
InClass(c, pat, e) ==
    LET neg == pat[2] = "!"
        first == IF neg THEN 3 ELSE 2
        member == \E k \in first..(e - 1) : pat[k] = c
    IN IF neg THEN ~member ELSE member

RECURSIVE FnMatch(_, _)
\* fnmatch.fnmatchcase(name, pat): '*', '?', '[seq]', '[!seq]', literals
FnMatch(name, pat) ==
    IF pat = <<>> THEN name = <<>>
    ELSE IF pat[1] = "*"
    THEN FnMatch(name, Tail(pat)) \/ (name # <<>> /\ FnMatch(Tail(name), pat))
    ELSE IF pat[1] = "?"
    THEN name # <<>> /\ FnMatch(Tail(name), Tail(pat))
    ELSE IF pat[1] = "[" /\ ClassEnd(pat) > 0
    THEN /\ name # <<>>
         /\ InClass(name[1], pat, ClassEnd(pat))
         /\ FnMatch(Tail(name), StrFrom(pat, ClassEnd(pat)))
    ELSE name # <<>> /\ name[1] = pat[1] /\ FnMatch(Tail(name), Tail(pat))

\* PurePath(path).match(pattern) for a relative pattern string: the pattern's
\* components are matched against the last components of the path
GlobMatch(path, pattern) ==
    LET pat == PathParts(pattern)
        parts == PathParts(path)
    IN IF pat = <<>> THEN Raise("ValueError")
       ELSE IF Len(pat) > Len(parts) THEN Ret(FALSE)
       ELSE Ret(\A i \in 1..Len(pat) :
                    FnMatch(parts[Len(parts) - Len(pat) + i], pat[i]))

\* test_path.match(exp), line 185: pathlib takes a pattern string and indexes
\* it; handed a compiled regular expression it raises TypeError
PurePathMatch(path, exp) ==
    IF exp.kind = "regex" THEN Raise("TypeError")
    ELSE GlobMatch(path, exp.text)

RECURSIVE IgnoresFrom(_, _, _)
\* the loop of ignores(): patterns are tried in order from index i
IgnoresFrom(path, patterns, i) ==
    IF i > Len(patterns) THEN Ret(FALSE)
    ELSE LET m == PurePathMatch(path, patterns[i]) IN
         IF m.exc # "none" THEN m
         ELSE IF m.val THEN Ret(TRUE)
         ELSE IgnoresFrom(path, patterns, i + 1)

\* ignores(path), lines 180-188
Ignores(path) == IgnoresFrom(path, ignore_patterns, 1)

\* ---------------------------------------------------------- the directory
\* A directory entry is [name, dir, children]; the package directory is the
\* sequence of its entries in the order os.listdir gives them.

File(n) == [name |-> n, dir |-> FALSE, children |-> <<>>]
Dir(n, c) == [name |-> n, dir |-> TRUE, children |-> c]

\* build/a.o, build/sub/b.o, src/main.c
TreeBuildSrc ==
    << Dir(<<"b","u","i","l","d">>,
           << File(<<"a",".","o">>),
              Dir(<<"s","u","b">>, << File(<<"b",".","o">>) >>) >>),
       Dir(<<"s","r","c">>, << File(<<"m","a","i","n",".","c">>) >>) >>

\* keys.secret, src/main.c, README.md
TreeSecret ==
    << File(<<"k","e","y","s",".","s","e","c","r","e","t">>),
       Dir(<<"s","r","c">>, << File(<<"m","a","i","n",".","c">>) >>),
       File(<<"R","E","A","D","M","E",".","m","d">>) >>

\* the package directories the entity is built on
Trees == {TreeBuildSrc, TreeSecret}

\* description_filename as the callers give it: 'module.json'
DescriptionFilename == <<"m","o","d","u","l","e",".","j","s","o","n">>

\* whether directory t has an entry of that name
HasEntry(t, name) == \E i \in 1..Len(t) : t[i].name = name

\* directory t with entry e listed after its first k entries
InsertAt(t, k, e) == SubSeq(t, 1, k) \o <<e>> \o SubSeq(t, k + 1, Len(t))

\* directory t holding the given manifest file, if there is one
OnDisk(t, file) ==
    IF file.kind = "missing" THEN t ELSE Append(t, File(DescriptionFilename))

\* directory t holding the given ignore file, if there is one
WithIgnoreFile(t, ignorefile) ==
    IF ignorefile.exists THEN Append(t, File(Ignore_List_Fname)) ELSE t

\* os.listdir(self.path)
ListDir(t) == [i \in 1..Len(t) |-> t[i].name]

\* ------------------------------------------------------------ the tarball

\* '%s' % x for a string or None
PyStr(x) == IF x = None THEN NoneStr ELSE x

\* archive_name, line 209: '%s-%s' % (self.getName(), self.getVersion())
ArchiveName ==
    IF GetName.exc # "none" THEN GetName
    ELSE Ret(PyStr(GetName.val) \o <<"-">>
                \o (IF version = None THEN NoneStr ELSE VersionStr(version)))

\* filterArchive(tarinfo), lines 210-218: TRUE keeps the entry, FALSE drops it
FilterArchive(name, archive_name) ==
    LET unprefixed_name ==
            IF StartsWith(name, archive_name)
            THEN StrFrom(name, Len(archive_name) + 1)
            ELSE name
        ig == Ignores(unprefixed_name)
    IN IF ig.exc # "none" THEN ig ELSE Ret(~ig.val)

RECURSIVE TarAdd(_, _, _, _)
RECURSIVE TarAddAll(_, _, _, _, _)
\* TarFile.add(name, arcname, filter) as generateTarball calls it, line 221:
\* the filter sees the entry first; a dropped directory is not descended
\* into; an exception from the filter ends the walk
TarAdd(node, arcname, archive_name, acc) ==
    IF acc.exc # "none" THEN acc
    ELSE LET f == FilterArchive(arcname, archive_name) IN
         IF f.exc # "none" THEN [acc EXCEPT !.exc = f.exc]
         ELSE IF ~f.val THEN acc
         ELSE LET acc1 == [acc EXCEPT !.val = Append(@, arcname)] IN
              IF node.dir
              THEN TarAddAll(node.children, 1, arcname, archive_name, acc1)
              ELSE acc1

TarAddAll(children, i, arcname, archive_name, acc) ==
    IF i > Len(children) THEN acc
    ELSE TarAddAll(children, i + 1, arcname, archive_name,
                   TarAdd(children[i], arcname \o <<"/">> \o children[i].name,
                          archive_name, acc))

\* generateTarball(file_object), lines 205-221, on directory t: the names of
\* the archive's entries in the order written, or the exception raised
GenerateTarball(t) ==
    IF ArchiveName.exc # "none" THEN Raise(ArchiveName.exc)
    ELSE TarAdd(Dir(<<".">>, t), ArchiveName.val, ArchiveName.val, Ret(<<>>))

\* ------------------------------------------------------------- the readme

\* OptionalFileWrapper(fname, mode), lines 55-59
OptionalFileWrapper(fname) == [fname |-> fname]

\* OptionalFileWrapper.__nonzero__
WrapperTruthy(w) == w.fname # None

RECURSIVE LastDot(_, _)
\* the index of the last '.' of s at or before i, 0 if none
LastDot(s, i) ==
    IF i = 0 THEN 0 ELSE IF s[i] = "." THEN i ELSE LastDot(s, i - 1)

\* os.path.splitext(name)[1]: from the last dot, unless only dots precede it
SplitExt(s) ==
    LET d == LastDot(s, Len(s)) IN
    IF d = 0 \/ (\A k \in 1..d : s[k] = ".") THEN <<>> ELSE StrFrom(s, d - 1)

\* OptionalFileWrapper.extension()
WrapperExtension(w) == IF w.fname # None THEN SplitExt(w.fname) ELSE <<>>

\* OptionalFileWrapper.contents(), where text is what the open file holds
WrapperContents(w, text) == IF w.fname # None THEN text ELSE <<>>

\* Readme_Regex.match(x): the pattern is anchored at the start only
ReadmeRegexMatch(x) == StartsWith(StrLower(x), Readme_Regex)

\* f.endswith('.md'), line 228
EndsWithMd(f) == EndsWith(f, <<".","m","d">>)

\* findAndOpenReadme(), lines 223-237, on the listing files
FindAndOpenReadme(files) ==
    LET readme_files == SelectSeq(files, ReadmeRegexMatch)
        md == SelectSeq(readme_files, EndsWithMd)
    IN IF md # <<>> THEN OptionalFileWrapper(md[1])
       ELSE IF Len(readme_files) > 0 THEN OptionalFileWrapper(readme_files[1])
       ELSE OptionalFileWrapper(None)

\* --------------------------------------------------------- the Pack entity

Procs == 1..NumProcs

\* the record kept of the last call: its name, argument and outcome
Call(op, arg, r) == [op |-> op, arg |-> arg, exc |-> r.exc, val |-> r.val]

\* the manifest's version field, None when it has none
DescVersion == IF "version" \in DOMAIN description THEN description["version"] ELSE None

\* the manifest's name field, None when it has none
DescName == IF "name" \in DOMAIN description THEN description["name"] ELSE None

\* what a mutator's record keeps of the state it was called in
Before == [version |-> version, descVersion |-> DescVersion, descName |-> DescName,
           latest |-> latest_suitable_version]

\* what is known of one publish() invocation: the handles it holds open, those
\* it ever opened, the exception it is unwinding with, the value it returned,
\* the steps it completed in order, and the inode it created
NewPublish ==
    [handles |-> {}, opened |-> {}, exc |-> "none", ret |-> "None",
     trace |-> <<>>, inode |-> 0, warned |-> FALSE, walk |-> <<>>]

\* no publish() is running and no staging file exists
PublishIdle ==
    /\ pc = [i \in Procs |-> "idle"]
    /\ fd = [i \in Procs |-> 0]
    /\ staging = 0
    /\ inodes = 0
    /\ pub = [i \in Procs |-> NewPublish]

\* Pack.__init__, lines 86-108, on a directory holding the given manifest
\* file and ignore file
PackInit(file, ignorefile, latest) ==
    /\ description = LoadDescription(file).description
    /\ version = LoadDescription(file).version
    /\ error = LoadDescription(file).error
    /\ latest_suitable_version = latest
    /\ ignore_patterns = InitIgnorePatterns(ignorefile)

\* a directory with no ignore file
NoIgnoreFile == [exists |-> FALSE, lines |-> <<>>]

Init ==
    /\ \E file \in ManifestFiles, latest \in Versions \cup {None} :
            /\ PackInit(file, NoIgnoreFile, latest)
            /\ manifest = file
            /\ tree = OnDisk(TreeSecret, file)
    /\ namespace = None
    /\ lastCall = Call("__init__", None, Ret(None))
    /\ PublishIdle

\* a setVersion that forgets the manifest
SetVersion_NoWriteBack(v) ==
    /\ version' = v
    /\ lastCall' = Call("setVersion", v, Ret(Before))
    /\ UNCHANGED <<description, error, latest_suitable_version, ignore_patterns, namespace, tree, manifest>>
    /\ UNCHANGED publishVars

\* setVersion(version), lines 190-192
SetVersion(v) ==
    /\ version' = v
    /\ description' = DictSet(description, "version", VersionStr(v))
    /\ lastCall' = Call("setVersion", v, Ret(Before))
    /\ UNCHANGED <<error, latest_suitable_version, ignore_patterns, namespace, tree, manifest>>
    /\ UNCHANGED publishVars

\* setName(name), lines 194-195
SetName(n) ==
    /\ description' = DictSet(description, "name", n)
    /\ lastCall' = Call("setName", n, Ret(Before))
    /\ UNCHANGED <<version, error, latest_suitable_version, ignore_patterns, namespace, tree, manifest>>
    /\ UNCHANGED publishVars

\* setLatestAvailable(version), lines 124-125
SetLatestAvailable(v) ==
    /\ latest_suitable_version' = v
    /\ lastCall' = Call("setLatestAvailable", v, Ret(Before))
    /\ UNCHANGED <<description, version, error, ignore_patterns, namespace, tree, manifest>>
    /\ UNCHANGED publishVars

\* an outdated() that compares with >= instead of >
Outdated_NotStrict ==
    IF ~VersionTruthy(latest_suitable_version) THEN {Ret(None)}
    ELSE IF version = None
    THEN {Ret(latest_suitable_version), Ret(None), Raise("TypeError")}
    ELSE IF ~VersionGT(version, latest_suitable_version)
    THEN {Ret(latest_suitable_version)}
    ELSE {Ret(None)}

\* outdated(), lines 127-136: the results it can give. With no version loaded
\* the comparison is between a version and None, which the version class
\* decides: any of the three outcomes.
Outdated ==
    IF ~VersionTruthy(latest_suitable_version) THEN {Ret(None)}
    ELSE IF version = None
    THEN {Ret(latest_suitable_version), Ret(None), Raise("TypeError")}
    ELSE IF VersionGT(latest_suitable_version, version)
    THEN {Ret(latest_suitable_version)}
    ELSE {Ret(None)}

CallOutdated ==
    /\ \E r \in Outdated :
         lastCall' = Call("outdated", [latest |-> latest_suitable_version,
                                       version |-> version], r)
    /\ UNCHANGED <<packVars, tree, manifest>>
    /\ UNCHANGED publishVars

\* writeDescription(), lines 197-203: the description is written to the
\* manifest file, which is created if the directory has none; where a new
\* file shows in the listing is the file system's choice. Marking the file
\* for commit is left to the version-control collaborator.
WriteDescription ==
    /\ manifest' = [kind |-> "json", obj |-> description]
    /\ IF HasEntry(tree, DescriptionFilename)
       THEN tree' = tree
       ELSE \E k \in 0..Len(tree) : tree' = InsertAt(tree, k, File(DescriptionFilename))
    /\ lastCall' = Call("writeDescription", None, Ret(None))
    /\ UNCHANGED packVars
    /\ UNCHANGED publishVars

Next ==
    \/ \E v \in Versions : SetVersion(v)
    \/ \E n \in Names : SetName(n)
    \/ \E v \in Versions \cup {None} : SetLatestAvailable(v)
    \/ CallOutdated
    \/ WriteDescription

Spec == Init /\ [][Next]_vars

\* the relative paths ignores() is asked about
Paths ==
    { <<"b","u","i","l","d">>,
      <<"b","u","i","l","d","/","o","u","t",".","o">>,
      <<"k","e","y","s",".","s","e","c","r","e","t">>,
      <<"s","r","c","/","m","a","i","n",".","c">>,
      <<"s","r","c","/",".","g","i","t">>,
      <<"d","o","c","s">>,
      <<".","g","i","t","/","H","E","A","D">>,
      UploadArchive,
      <<>> }

CallIgnores ==
    /\ \E path \in Paths : lastCall' = Call("ignores", path, Ignores(path))
    /\ UNCHANGED <<packVars, tree, manifest>>
    /\ UNCHANGED publishVars

CallGenerateTarball ==
    /\ lastCall' = Call("generateTarball", tree, GenerateTarball(tree))
    /\ UNCHANGED <<packVars, tree, manifest>>
    /\ UNCHANGED publishVars

\* ------------------------------------------- the ignore rules in use
\* .git/HEAD, upload.tar.gz, docs/notes.secret
TreeVcs ==
    << Dir(<<".","g","i","t">>, << File(<<"H","E","A","D">>) >>),
       File(UploadArchive),
       Dir(<<"d","o","c","s">>,
           << File(<<"n","o","t","e","s",".","s","e","c","r","e","t">>) >>) >>

\* ignore_patterns bound by the caller to the default patterns as plain
\* strings: the attribute is public, and with the list __init__ builds no
\* path can be matched
AssignedIgnorePatterns ==
    [i \in 1..Len(Default_Publish_Ignore) |->
        [kind |-> "str", text |-> Default_Publish_Ignore[i]]]

\* a package with a valid manifest
ValidManifest ==
    [kind |-> "json",
     obj |-> [k \in {"name", "version"} |->
                IF k = "name" THEN <<"p","k","g">> ELSE VersionStr(<<0, 0, 0>>)]]

\* a package built on the given manifest whose ignore_patterns the caller
\* then assigned
AssignedPack(file) ==
    /\ description = LoadDescription(file).description
    /\ version = LoadDescription(file).version
    /\ error = LoadDescription(file).error
    /\ latest_suitable_version = None
    /\ ignore_patterns = AssignedIgnorePatterns

\* a package with any of the ignore files, or with caller-assigned rules,
\* in any of the directories
InitIgnores ==
    /\ \E ignorefile \in IgnoreFiles, t \in Trees \cup {TreeVcs} :
         /\ \/ PackInit(ValidManifest, ignorefile, None)
            \/ ignorefile = NoIgnoreFile /\ AssignedPack(ValidManifest)
         /\ tree = WithIgnoreFile(OnDisk(t, ValidManifest), ignorefile)
    /\ manifest = ValidManifest
    /\ namespace = None
    /\ lastCall = Call("__init__", None, Ret(None))
    /\ PublishIdle

NextIgnores ==
    \/ CallIgnores
    \/ CallGenerateTarball

SpecIgnores == InitIgnores /\ [][NextIgnores]_vars

\* ------------------------------------------------------------- publish()
\* Each of Procs is one invocation of publish() on the same package
\* directory. Every statement of publish() is a step of its own, so that
\* another invocation can act between any two of them; pc[i] names the
\* statement invocation i is at, or waiting in.

Opened(s, h) == [s EXCEPT !.handles = @ \cup {h}, !.opened = @ \cup {h}]
Closed(s, h) == [s EXCEPT !.handles = @ \ {h}]
Completed(s, step) == [s EXCEPT !.trace = Append(@, step)]
Raised(s, e) == [s EXCEPT !.exc = e]

\* the package directory as publish() finds it: its entries, and the staging
\* file when one is bound to the name
PublishDir == IF staging # 0 THEN Append(tree, File(UploadArchive)) ELSE tree

\* what publish() leaves unchanged at every step
publishFixed == <<packVars, tree, manifest, lastCall>>

\* fsutils.rmF(upload_archive), line 245: the name is unbound; absence is no
\* error, any other failure of the removal raises
PublishRmF(i) ==
    /\ pc[i] = "idle"
    /\ \E ok \in BOOLEAN :
         IF ok
         THEN /\ staging' = 0
              /\ pc' = [pc EXCEPT ![i] = "open"]
              /\ pub' = [pub EXCEPT ![i] = Completed(@, "rmF")]
         ELSE /\ staging' = staging
              /\ pc' = [pc EXCEPT ![i] = "done"]
              /\ pub' = [pub EXCEPT ![i] = Raised(@, "OSError")]
    /\ UNCHANGED <<publishFixed, fd, inodes>>

\* os.open(upload_archive, O_CREAT | O_EXCL | O_RDWR), line 246, given the
\* inode bound to the name (0: none): the new inode, or EEXIST
OsOpenExcl(bound) ==
    IF bound # 0 THEN Raise("EEXIST") ELSE [exc |-> "none", val |-> inodes + 1]

\* lines 246-247: the staging file is created and wrapped in a stream
PublishCreate(i) ==
    /\ pc[i] = "open"
    /\ \E ok \in BOOLEAN :
         LET r == IF ok THEN OsOpenExcl(staging) ELSE Raise("OSError") IN
         IF r.exc = "none"
         THEN /\ inodes' = r.val
              /\ staging' = r.val
              /\ fd' = [fd EXCEPT ![i] = r.val]
              /\ pc' = [pc EXCEPT ![i] = "truncate"]
              /\ pub' = [pub EXCEPT ![i] =
                           Completed([Opened(@, "tar_file") EXCEPT !.inode = r.val],
                                     "os.open")]
         ELSE /\ pc' = [pc EXCEPT ![i] = "done"]
              /\ pub' = [pub EXCEPT ![i] = Raised(@, r.exc)]
              /\ UNCHANGED <<inodes, staging, fd>>
    /\ UNCHANGED publishFixed

\* tar_file.truncate(), line 248
StepTruncate(s) == Completed(s, "truncate")

\* tf.add as generateTarball starts it, lines 209-221: the archive name is
\* formed and the filter is asked about the root; FALSE when the root is
\* dropped, or the exception raised
TarAddRoot ==
    IF ArchiveName.exc # "none" THEN Raise(ArchiveName.exc)
    ELSE FilterArchive(ArchiveName.val, ArchiveName.val)

\* self.generateTarball(tar_file), line 249, up to the listing of the
\* package directory: `walk` is what the listing gave
StepListDirectory(s) ==
    LET r == TarAddRoot IN
    IF r.exc # "none" THEN Raised(s, r.exc)
    ELSE [s EXCEPT !.walk = IF r.val THEN PublishDir ELSE <<>>]

\* a build that writes nothing and reports nothing
StepGenerateTarball_Swallowed(s) == [s EXCEPT !.walk = <<>>]

\* self.generateTarball(tar_file), line 249, after the listing: each entry
\* listed is read in turn, so a staging file that was listed and has since
\* been removed raises; otherwise the archive is built from the listing
StepGenerateTarball(s) ==
    LET r == GenerateTarball(s.walk) IN
    IF HasEntry(s.walk, UploadArchive) /\ staging = 0
    THEN [Raised(s, "OSError") EXCEPT !.walk = <<>>]
    ELSE IF r.exc # "none" THEN [Raised(s, r.exc) EXCEPT !.walk = <<>>]
    ELSE [Completed(s, "generateTarball") EXCEPT !.walk = <<>>]

\* tar_file.seek(0), line 250
StepSeek(s) == Completed(s, "seek")

\* with self.findAndOpenReadme() as readme_file_wrapper, lines 251-253, and
\* OptionalFileWrapper.__enter__, lines 60-65: the file found is opened by
\* its bare name, which may fail; with none found os.devnull is opened and
\* the missing readme is warned about
StepEnterReadme(s, opens) ==
    LET w == FindAndOpenReadme(ListDir(PublishDir)) IN
    IF WrapperTruthy(w) /\ ~opens THEN Raised(s, "IOError")
    ELSE [Completed(Opened(s, "readme"), "findAndOpenReadme")
            EXCEPT !.warned = ~WrapperTruthy(w)]

\* with open(self.getDescriptionFile(), 'r') as description_file, line 254:
\* fails when the directory has no manifest file, or when told to
StepOpenDescription(s, opens) ==
    IF manifest.kind = "missing" \/ ~opens THEN Raised(s, "IOError")
    ELSE Completed(Opened(s, "description_file"), "open description")

\* registry_access.publish(...), lines 255-263: its arguments are evaluated
\* in order (getRegistryNamespace() and getName() may raise), then it
\* returns None or an error, or raises
StepRegistryPublish(s, registry) ==
    IF GetRegistryNamespace.exc # "none" THEN Raised(s, GetRegistryNamespace.exc)
    ELSE IF GetName.exc # "none" THEN Raised(s, GetName.exc)
    ELSE IF registry = "raise"
    THEN Raised(Completed(s, "registry.publish"), "RegistryError")
    ELSE [Completed(s, "registry.publish") EXCEPT !.ret = registry]

\* a stream closed by hand after the block, not by a with statement
ExitTarFile_OnSuccessOnly(s) == IF s.exc = "none" THEN Closed(s, "tar_file") ELSE s

\* the with blocks' exits, innermost first: each closes its file whether or
\* not an exception is passing through
ExitDescription(s) == Closed(s, "description_file")
ExitReadme(s) == Closed(s, "readme")
ExitTarFile(s) == Closed(s, "tar_file")

\* where invocation i goes after a statement left it as s: on to `next`, or
\* with an exception to the exit of the innermost block it is in
After(s, next, onRaise) == IF s.exc # "none" THEN onRaise ELSE next

PublishTruncate(i) ==
    /\ pc[i] = "truncate"
    /\ pub' = [pub EXCEPT ![i] = StepTruncate(@)]
    /\ pc' = [pc EXCEPT ![i] = After(pub'[i], "generateTarball", "exitTarFile")]
    /\ UNCHANGED <<publishFixed, fd, staging, inodes>>

PublishListDirectory(i) ==
    /\ pc[i] = "generateTarball"
    /\ pub' = [pub EXCEPT ![i] = StepListDirectory(@)]
    /\ pc' = [pc EXCEPT ![i] = After(pub'[i], "tf.add", "exitTarFile")]
    /\ UNCHANGED <<publishFixed, fd, staging, inodes>>

PublishGenerateTarball(i) ==
    /\ pc[i] = "tf.add"
    /\ pub' = [pub EXCEPT ![i] = StepGenerateTarball(@)]
    /\ pc' = [pc EXCEPT ![i] = After(pub'[i], "seek", "exitTarFile")]
    /\ UNCHANGED <<publishFixed, fd, staging, inodes>>

PublishSeek(i) ==
    /\ pc[i] = "seek"
    /\ pub' = [pub EXCEPT ![i] = StepSeek(@)]
    /\ pc' = [pc EXCEPT ![i] = After(pub'[i], "readme", "exitTarFile")]
    /\ UNCHANGED <<publishFixed, fd, staging, inodes>>

PublishEnterReadme(i) ==
    /\ pc[i] = "readme"
    /\ \E opens \in BOOLEAN :
         pub' = [pub EXCEPT ![i] = StepEnterReadme(@, opens)]
    /\ pc' = [pc EXCEPT ![i] = After(pub'[i], "description", "exitTarFile")]
    /\ UNCHANGED <<publishFixed, fd, staging, inodes>>

PublishOpenDescription(i) ==
    /\ pc[i] = "description"
    /\ \E opens \in BOOLEAN :
         pub' = [pub EXCEPT ![i] = StepOpenDescription(@, opens)]
    /\ pc' = [pc EXCEPT ![i] = After(pub'[i], "registry", "exitReadme")]
    /\ UNCHANGED <<publishFixed, fd, staging, inodes>>

\* what the registry answers
RegistryAnswers == {"None", "error", "raise"}

\* the call returns, or raises, after the wait in the registry client
PublishRegistry(i) ==
    /\ pc[i] = "registry"
    /\ \E registry \in RegistryAnswers :
         pub' = [pub EXCEPT ![i] = StepRegistryPublish(@, registry)]
    /\ pc' = [pc EXCEPT ![i] = "exitDescription"]
    /\ UNCHANGED <<publishFixed, fd, staging, inodes>>

PublishExitDescription(i) ==
    /\ pc[i] = "exitDescription"
    /\ pub' = [pub EXCEPT ![i] = ExitDescription(@)]
    /\ pc' = [pc EXCEPT ![i] = "exitReadme"]
    /\ UNCHANGED <<publishFixed, fd, staging, inodes>>

PublishExitReadme(i) ==
    /\ pc[i] = "exitReadme"
    /\ pub' = [pub EXCEPT ![i] = ExitReadme(@)]
    /\ pc' = [pc EXCEPT ![i] = "exitTarFile"]
    /\ UNCHANGED <<publishFixed, fd, staging, inodes>>

\* the staging stream is closed and publish() returns or raises
PublishExitTarFile(i) ==
    /\ pc[i] = "exitTarFile"
    /\ pub' = [pub EXCEPT ![i] = ExitTarFile(@)]
    /\ fd' = [fd EXCEPT ![i] = IF "tar_file" \in pub'[i].handles THEN @ ELSE 0]
    /\ pc' = [pc EXCEPT ![i] = "done"]
    /\ UNCHANGED <<publishFixed, staging, inodes>>

\* a manifest with a version and no name
NamelessManifest ==
    [kind |-> "json", obj |-> [k \in {"version"} |-> VersionStr(<<0, 1, 0>>)]]

\* the packages published: a subclass object and a Pack object whose
\* ignore_patterns the caller assigned, without and with a readme; a Pack as
\* __init__ leaves it; Packs with a nameless manifest and with none
PublishPackages ==
    { [file |-> ValidManifest, dir |-> TreeBuildSrc, ns |-> SubclassNamespace,
       assigned |-> TRUE],
      [file |-> ValidManifest, dir |-> TreeSecret, ns |-> None, assigned |-> TRUE],
      [file |-> ValidManifest, dir |-> TreeSecret, ns |-> None, assigned |-> FALSE],
      [file |-> NamelessManifest, dir |-> TreeSecret, ns |-> None, assigned |-> TRUE],
      [file |-> [kind |-> "missing", obj |-> EmptyDict], dir |-> TreeSecret,
       ns |-> None, assigned |-> FALSE] }

\* no invocation has started and no staging file exists
InitPublish ==
    /\ \E p \in PublishPackages :
            /\ IF p.assigned THEN AssignedPack(p.file)
               ELSE PackInit(p.file, NoIgnoreFile, None)
            /\ manifest = p.file
            /\ tree = OnDisk(p.dir, p.file)
            /\ namespace = p.ns
    /\ lastCall = Call("__init__", None, Ret(None))
    /\ pc = [i \in Procs |-> "idle"]
    /\ fd = [i \in Procs |-> 0]
    /\ staging = 0
    /\ inodes = 0
    /\ pub = [i \in Procs |-> NewPublish]

NextPublish ==
    \/ \E i \in Procs : PublishRmF(i)
    \/ \E i \in Procs : PublishCreate(i)
    \/ \E i \in Procs : PublishTruncate(i)
    \/ \E i \in Procs : PublishListDirectory(i)
    \/ \E i \in Procs : PublishGenerateTarball(i)
    \/ \E i \in Procs : PublishSeek(i)
    \/ \E i \in Procs : PublishEnterReadme(i)
    \/ \E i \in Procs : PublishOpenDescription(i)
    \/ \E i \in Procs : PublishRegistry(i)
    \/ \E i \in Procs : PublishExitDescription(i)
    \/ \E i \in Procs : PublishExitReadme(i)
    \/ \E i \in Procs : PublishExitTarFile(i)

SpecPublish == InitPublish /\ [][NextPublish]_vars

\* ------------------------------------------------------ the readme locator

\* names a package directory may hold, around the readme
ReadmeNames ==
    { <<"R","E","A","D","M","E",".","m","d">>,
      <<"r","e","a","d","m","e",".","M","D">>,
      <<"R","E","A","D","M","E">>,
      <<"R","e","a","d","m","e">>,
      <<"r","e","a","d","m","e",".","m","d","o","w","n">>,
      <<"r","e","a","d","m","e",".","t","x","t">> }

\* flat directories of at most MaxList distinct such files, in any listing order
ReadmeDirs ==
    { [i \in 1..Len(names) |-> File(names[i])] :
        names \in { f \in UNION {[1..n -> ReadmeNames] : n \in 0..MaxList} :
                      \A i, j \in DOMAIN f : i # j => f[i] # f[j] } }

CallFindAndOpenReadme ==
    /\ lastCall' = Call("findAndOpenReadme", ListDir(tree),
                        Ret(FindAndOpenReadme(ListDir(tree))))
    /\ UNCHANGED <<packVars, tree, manifest>>
    /\ UNCHANGED publishVars

\* a package with a valid manifest in one of those directories
InitReadme ==
    /\ PackInit(ValidManifest, NoIgnoreFile, None)
    /\ manifest = ValidManifest
    /\ tree \in {OnDisk(d, ValidManifest) : d \in ReadmeDirs}
    /\ namespace = None
    /\ lastCall = Call("__init__", None, Ret(None))
    /\ PublishIdle

NextReadme == CallFindAndOpenReadme

SpecReadme == InitReadme /\ [][NextReadme]_vars

\* ------------------------------------------------------------------ claims

\* C5: an artifact with a load error is falsy; it is truthy only if its
\* manifest was loaded successfully. (Stated as claimed; the code breaks it:
\* a mutator on a Pack whose load failed fills the description.)
C5_LoadErrorMeansFalsy == GetError # "None" => ~Truthy

\* C6 as claimed: whenever version is not None the manifest's version field
\* equals str(version), from construction on.
C6_ManifestVersionIsStr == version # None => DescVersion = VersionStr(version)

\* C6 as amended: whenever version is not None the manifest's version field
\* parses to version; right after setVersion(v), getVersion() is v and the
\* field is str(v); setName and setLatestAvailable leave both as they were.
C6_VersionSynchronized ==
    /\ version # None =>
         /\ DescVersion # None
         /\ VersionParses(DescVersion)
         /\ Version(DescVersion) = GetVersion
    /\ lastCall.op = "setVersion" =>
         /\ GetVersion = lastCall.arg
         /\ DescVersion = VersionStr(lastCall.arg)
    /\ lastCall.op \in {"setName", "setLatestAvailable"} =>
         /\ GetVersion = lastCall.val.version
         /\ DescVersion = lastCall.val.descVersion

\* C6 witness: setVersion replaced a loaded version by a different one
C6_SetVersionChanged ==
    /\ lastCall.op = "setVersion"
    /\ lastCall.val.version # None
    /\ lastCall.val.version # lastCall.arg
    /\ lastCall.val.descVersion # VersionStr(lastCall.val.version)

\* C7: outdated() returns the candidate exactly when the candidate is
\* strictly greater than the version, and None when it is equal or lower or
\* when there is no candidate.
C7_OutdatedIffNewer ==
    lastCall.op = "outdated" =>
        LET l == lastCall.arg.latest
            v == lastCall.arg.version
        IN /\ l = None => lastCall.exc = "none" /\ lastCall.val = None
           /\ (l # None /\ v # None) =>
                /\ lastCall.exc = "none"
                /\ (lastCall.val = l <=> VersionGT(l, v))
                /\ (lastCall.val = None <=> ~VersionGT(l, v))

\* C7 witness: outdated() returned a candidate newer than the loaded version
C7_OutdatedReturnedCandidate ==
    /\ lastCall.op = "outdated"
    /\ lastCall.arg.version # None
    /\ lastCall.exc = "none"
    /\ lastCall.val # None
    /\ lastCall.val = latest_suitable_version

\* the rule set as the specification describes it: every default pattern and
\* every non-empty override line, each a glob
ClaimedRules ==
    {Default_Publish_Ignore[i] : i \in 1..Len(Default_Publish_Ignore)}
        \cup {ignore_patterns[i].text :
                i \in {k \in 1..Len(ignore_patterns) :
                         ignore_patterns[k].kind = "str"
                         /\ ignore_patterns[k].text # <<>>}}

\* a path matches some rule of that set
ClaimedIgnores(path) ==
    \E rule \in ClaimedRules :
        GlobMatch(path, rule).exc = "none" /\ GlobMatch(path, rule).val

RECURSIVE ClaimedKept(_, _)
\* the relative paths of a directory none of which, nor an ancestor, matches
ClaimedKept(children, prefix) ==
    UNION { LET p == prefix \o children[i].name IN
            IF ClaimedIgnores(p) THEN {}
            ELSE {p} \cup ClaimedKept(children[i].children, p \o <<"/">>)
          : i \in 1..Len(children) }

\* C8: the archive generateTarball builds holds exactly the entries of the
\* tree that are not excluded and have no excluded ancestor, each under
\* '<name>-<version>/'. (Stated as claimed; the code raises instead.)
C8_ArchiveIsFilteredTree ==
    (lastCall.op = "generateTarball" /\ DescName # None /\ version # None) =>
        /\ lastCall.exc = "none"
        /\ {lastCall.val[i] : i \in 1..Len(lastCall.val)} \ {ArchiveName.val}
             = {ArchiveName.val \o <<"/">> \o p : p \in ClaimedKept(tree, <<>>)}

\* C9: ignores(path) is true exactly when the path matches a default rule or
\* an override rule. (Stated as claimed; the code raises instead.)
C9_IgnoresIffSomeRuleMatches ==
    lastCall.op = "ignores" =>
        /\ lastCall.exc = "none"
        /\ lastCall.val = ClaimedIgnores(lastCall.arg)

\* the readme the specification selects from a listing
ClaimedCandidate(x) ==
    StrLower(x) \in {<<"r","e","a","d","m","e">>,
                     <<"r","e","a","d","m","e",".","m","d">>}
ClaimedMd(x) == EndsWith(StrLower(x), <<".","m","d">>)
ClaimedReadme(files) ==
    LET cands == SelectSeq(files, ClaimedCandidate)
        md == SelectSeq(cands, ClaimedMd)
    IN IF md # <<>> THEN md[1] ELSE IF cands # <<>> THEN cands[1] ELSE None

\* C10: findAndOpenReadme returns the first candidate ending in '.md'
\* (case-insensitively), else the first candidate, else the absent marker,
\* which is falsy with empty contents and extension; candidates are the
\* names equal to 'readme' or 'readme.md' ignoring case. (Stated as claimed.)
C10_ReadmeSelection ==
    lastCall.op = "findAndOpenReadme" =>
        /\ lastCall.val.fname = ClaimedReadme(lastCall.arg)
        /\ lastCall.val.fname = None =>
             /\ ~WrapperTruthy(lastCall.val)
             /\ WrapperExtension(lastCall.val) = <<>>
             /\ WrapperContents(lastCall.val, <<"t","e","x","t">>) = <<>>

\* the positions of a step in the trace of invocation i
StepsAt(i, step) == {k \in 1..Len(pub[i].trace) : pub[i].trace[k] = step}

\* invocation i is past the create step and has its staging stream open
Staging(i) == pc[i] \notin {"idle", "open", "done"} /\ fd[i] # 0

\* C1: the exclusive create protects the staging file: two invocations are
\* never both past the create step, and the file of an invocation that is
\* staging is still the one bound to the name. (Stated as claimed; the code
\* breaks it: the rmF of the second invocation unbinds the first's file.)
C1_ExclusiveCreateProtects ==
    \A i \in Procs :
        Staging(i) =>
            /\ staging = fd[i]
            /\ \A j \in Procs \ {i} : ~Staging(j)

\* C2: the registry is called at most once per publish(), and only after
\* os.open, generateTarball and seek have completed in that order; when the
\* create or an earlier step fails, publish() raises and makes no call.
C2_RegistryOnlyAfterStaging ==
    \A i \in Procs :
        /\ Cardinality(StepsAt(i, "registry.publish")) <= 1
        /\ \A k \in StepsAt(i, "registry.publish") :
             \E a \in StepsAt(i, "os.open"), b \in StepsAt(i, "generateTarball"),
                c \in StepsAt(i, "seek") : a < b /\ b < c /\ c < k
        /\ (pc[i] = "done" /\ StepsAt(i, "os.open") = {}) =>
             /\ pub[i].exc # "none"
             /\ StepsAt(i, "registry.publish") = {}

\* C2 witness: one invocation has called the registry, and another lost the
\* create to it and raised EEXIST without calling the registry
C2_CalledAndAborted ==
    \E i, j \in Procs :
        /\ pc[i] = "done"
        /\ StepsAt(i, "registry.publish") # {}
        /\ pc[j] = "done"
        /\ pub[j].exc = "EEXIST"
        /\ StepsAt(j, "rmF") # {}
        /\ StepsAt(j, "registry.publish") = {}

\* C3: a publish() that did not fully succeed leaves no staging file of its
\* own behind. (Stated as claimed; the code never removes the file.)
C3_NoStagingLeftOnFailure ==
    \A i \in Procs :
        (pc[i] = "done" /\ pub[i].inode # 0
            /\ (pub[i].exc # "none" \/ pub[i].ret # "None")) =>
                staging # pub[i].inode

\* C4: when publish() has returned or raised, every handle it opened is closed
C4_HandlesClosedOnExit ==
    \A i \in Procs : pc[i] = "done" => pub[i].handles = {} /\ fd[i] = 0

\* C4 witness: publish() on a Pack left by the AttributeError of the
\* registry call's first argument, after it had opened the staging stream,
\* the readme and the manifest
C4_RaisedWithAllOpened ==
    \E i \in Procs :
        /\ pc[i] = "done"
        /\ pub[i].exc = "AttributeError"
        /\ pub[i].opened = {"tar_file", "readme", "description_file"}

=============================================================================
